---- MODULE Spec2Model ----
(***************************************************************************)
(* A model of LogAnalyzer (src/log_analyzer/log_analyzer.py): the line     *)
(* parser, the per-line step of process_log_file, _update_statistics,      *)
(* identify_suspicious_ips, generate_statistics and the percentages of     *)
(* display_console_report.                                                 *)
(*                                                                         *)
(* Text is a sequence of one-character strings.  A Python dict (which      *)
(* keeps insertion order) is a sequence of <<key, value>> pairs with       *)
(* distinct keys, in insertion order.  A float quotient of two small       *)
(* integers is the exact fraction [num, den] in lowest terms.              *)
(***************************************************************************)
EXTENDS Integers, Sequences, FiniteSets, TLC

(***************************************************************************)
(* Characters and character classes of the regular expressions.            *)
(***************************************************************************)
Digit == {"0", "1", "2", "3", "4", "5", "6", "7", "8", "9"}

Letter == {"G", "E", "T", "P", "O", "S", "H", "a", "b", "c", "o", "p", "s"}

Whitespace == {" ", "\n"}

Punct == {".", "-", "[", "]", "\"", "/", ":", "_", "!"}

Alphabet == Digit \cup Letter \cup Whitespace \cup Punct

\* \w
WordChar == Digit \cup Letter \cup {"_"}

\* [\d\.]
DigitDot == Digit \cup {"."}

\* [^\]]
NotBracket == Alphabet \ {"]"}

\* [^\s]
NotSpace == Alphabet \ Whitespace

\* [\d-]
DigitDash == Digit \cup {"-"}

\* [\w-]
WordDash == WordChar \cup {"-"}

(***************************************************************************)
(* str.strip(), slicing and str.startswith.                                *)
(***************************************************************************)
RECURSIVE LStrip(_)
LStrip(s) ==
    IF s # <<>> /\ Head(s) \in Whitespace THEN LStrip(Tail(s)) ELSE s

RECURSIVE RStrip(_)
RStrip(s) ==
    IF s # <<>> /\ s[Len(s)] \in Whitespace
    THEN RStrip(SubSeq(s, 1, Len(s) - 1))
    ELSE s

Strip(s) == RStrip(LStrip(s))

\* s[:n]
Take(s, n) == IF Len(s) <= n THEN s ELSE SubSeq(s, 1, n)

\* s.startswith(c) for a one-character prefix c
StartsWith(s, c) == s # <<>> /\ Head(s) = c

(***************************************************************************)
(* The regular expressions.  A pattern is a sequence of items: a literal   *)
(* text, or a character class repeated one or more times (X+), captured    *)
(* under a group name ("" when it is not captured).  In the three          *)
(* patterns every X+ is followed by a literal whose first character is not *)
(* in X, or ends the pattern, so the greedy run is the only way re.match   *)
(* can match the item: no backtracking is lost.  re.match anchors at the   *)
(* start of the text only; text after the pattern's end is ignored.        *)
(***************************************************************************)
Lit(text) == [kind |-> "lit", text |-> text]

Plus(cls, name) == [kind |-> "plus", cls |-> cls, name |-> name]

RequestTail ==
    << Lit(<<"]", " ", "\"">>), Plus(WordChar, "method"), Lit(<<" ">>),
       Plus(NotSpace, "endpoint"), Lit(<<" ", "H", "T", "T", "P", "/">>),
       Plus(DigitDot, ""), Lit(<<"\"", " ">>), Plus(Digit, "status"),
       Lit(<<" ">>), Plus(DigitDash, "bytes") >>

APACHE_COMBINED ==
    << Plus(DigitDot, "ip"), Lit(<<" ", "-", " ", "-", " ", "[">>),
       Plus(NotBracket, "timestamp") >> \o RequestTail

NGINX_COMBINED ==
    << Plus(DigitDot, "ip"), Lit(<<" ", "-", " ", "-", " ", "[">>),
       Plus(NotBracket, "timestamp") >> \o RequestTail

EXTENDED_FORMAT ==
    << Plus(DigitDot, "ip"), Lit(<<" ", "-", " ">>), Plus(WordDash, "user"),
       Lit(<<" ", "[">>), Plus(NotBracket, "timestamp") >> \o RequestTail

\* The value parse_line returns when it does not return a groupdict.
None == [none |-> TRUE]

\* The length of the longest run of characters of cls in s from position pos.
RECURSIVE RunLength(_, _, _)
RunLength(cls, s, pos) ==
    IF pos <= Len(s) /\ s[pos] \in cls THEN 1 + RunLength(cls, s, pos + 1) ELSE 0

HasLiteralAt(text, s, pos) ==
    /\ pos + Len(text) - 1 <= Len(s)
    /\ SubSeq(s, pos, pos + Len(text) - 1) = text

\* pattern.match(s) followed by match.groupdict(): the captured groups as a
\* function from group names to texts, or None.
RECURSIVE MatchFrom(_, _, _, _, _)
MatchFrom(pattern, i, s, pos, groups) ==
    IF i > Len(pattern) THEN groups
    ELSE LET item == pattern[i] IN
         IF item.kind = "lit"
         THEN IF HasLiteralAt(item.text, s, pos)
              THEN MatchFrom(pattern, i + 1, s, pos + Len(item.text), groups)
              ELSE None
         ELSE LET n == RunLength(item.cls, s, pos) IN
              IF n = 0 THEN None
              ELSE MatchFrom(pattern, i + 1, s, pos + n,
                             IF item.name = "" THEN groups
                             ELSE (item.name :> SubSeq(s, pos, pos + n - 1)) @@ groups)

Match(pattern, s) == MatchFrom(pattern, 1, s, 1, <<>>)

\* The loop of parse_line over the three patterns: the first match wins.
RECURSIVE FirstMatch(_, _)
FirstMatch(patterns, s) ==
    IF patterns = <<>> THEN None
    ELSE LET m == Match(Head(patterns), s) IN
         IF m # None THEN m ELSE FirstMatch(Tail(patterns), s)

parse_line(line) ==
    LET stripped == Strip(line) IN
    IF stripped = <<>> THEN None
    ELSE FirstMatch(<<APACHE_COMBINED, NGINX_COMBINED, EXTENDED_FORMAT>>, stripped)

(***************************************************************************)
(* dict, defaultdict(int) and Counter: sequences of <<key, value>> pairs   *)
(* in insertion order.                                                     *)
(***************************************************************************)
Keys(d) == {d[i][1] : i \in DOMAIN d}

\* d.get(k, default); also d[k] of a Counter read without insertion
Get(d, k, default) ==
    IF \E i \in DOMAIN d : d[i][1] = k
    THEN d[CHOOSE i \in DOMAIN d : d[i][1] = k][2]
    ELSE default

\* Increment written as d[k] = d.pop(k, 0) + 1: the key moves to the end.
IncrementMoveToEnd(d, k) ==
    LET others == SelectSeq(d, LAMBDA item : item[1] # k)
    IN  Append(others, <<k, Get(d, k, 0) + 1>>)

\* d[k] += 1 on a defaultdict(int) or a Counter: a missing key is inserted
\* at the end with 1, a present key keeps its place.
Increment(d, k) ==
    IF k \in Keys(d)
    THEN [i \in DOMAIN d |-> IF d[i][1] = k THEN <<k, d[i][2] + 1>> ELSE d[i]]
    ELSE Append(d, <<k, 1>>)

\* sum(d.values())
RECURSIVE SumValues(_)
SumValues(d) == IF d = <<>> THEN 0 ELSE Head(d)[2] + SumValues(Tail(d))

\* The sum for "5" taking every code that starts with none of 2, 3 and 4.
RECURSIVE SumStartingWithOrRest(_, _)
SumStartingWithOrRest(d, c) ==
    IF d = <<>> THEN 0
    ELSE (IF \/ StartsWith(Head(d)[1], c)
             \/ c = "5" /\ Head(Head(d)[1]) \notin {"2", "3", "4"}
          THEN Head(d)[2] ELSE 0)
         + SumStartingWithOrRest(Tail(d), c)

\* sum(count for code, count in d.items() if code.startswith(c))
RECURSIVE SumStartingWith(_, _)
SumStartingWith(d, c) ==
    IF d = <<>> THEN 0
    ELSE (IF StartsWith(Head(d)[1], c) THEN Head(d)[2] ELSE 0)
         + SumStartingWith(Tail(d), c)

(***************************************************************************)
(* LogAnalyzer.__init__: the analyzer's fields after construction.         *)
(* error_rate_threshold is a fraction [num, den].                          *)
(***************************************************************************)
LogAnalyzer(error_threshold, error_rate_threshold) ==
    [ error_threshold      |-> error_threshold,
      error_rate_threshold |-> error_rate_threshold,
      total_requests       |-> 0,
      ip_requests          |-> <<>>,
      ip_errors            |-> <<>>,
      endpoints            |-> <<>>,
      status_codes         |-> <<>>,
      methods              |-> <<>>,
      failed_lines         |-> <<>> ]

\* The default arguments of __init__: error_threshold = 10 and
\* error_rate_threshold = 0.5.
DefaultErrorThreshold == 10

DefaultErrorRateThreshold == [num |-> 1, den |-> 2]

\* The test main() makes before it constructs the analyzer:
\* if not 0 <= args.error_rate <= 1: parser.error(...)
main_accepts(error_rate) ==
    /\ 0 <= error_rate.num
    /\ error_rate.num <= error_rate.den

\* parsed.get(name, default)
Field(parsed, name, default) ==
    IF name \in DOMAIN parsed THEN parsed[name] ELSE default

Unknown == <<"u", "n", "k", "n", "o", "w", "n">>

\* _update_statistics with the request counted per client only under the
\* error test.
_update_statistics_errors_only(self, parsed) ==
    LET ip       == Field(parsed, "ip", Unknown)
        method   == Field(parsed, "method", Unknown)
        endpoint == Field(parsed, "endpoint", Unknown)
        status   == Field(parsed, "status", <<"0", "0", "0">>)
        error    == StartsWith(status, "4") \/ StartsWith(status, "5")
    IN  [ self EXCEPT
            !.total_requests = @ + 1,
            !.ip_requests    = IF error THEN Increment(@, ip) ELSE @,
            !.endpoints      = Increment(@, endpoint),
            !.status_codes   = Increment(@, status),
            !.methods        = Increment(@, method),
            !.ip_errors      = IF error THEN Increment(@, ip) ELSE @ ]

\* _update_statistics with a 4xx status counted as an error twice.
_update_statistics_twice(self, parsed) ==
    LET ip       == Field(parsed, "ip", Unknown)
        method   == Field(parsed, "method", Unknown)
        endpoint == Field(parsed, "endpoint", Unknown)
        status   == Field(parsed, "status", <<"0", "0", "0">>)
    IN  [ self EXCEPT
            !.total_requests = @ + 1,
            !.ip_requests    = Increment(@, ip),
            !.endpoints      = Increment(@, endpoint),
            !.status_codes   = Increment(@, status),
            !.methods        = Increment(@, method),
            !.ip_errors      = IF StartsWith(status, "4")
                               THEN Increment(Increment(@, ip), ip)
                               ELSE IF StartsWith(status, "5")
                               THEN Increment(@, ip)
                               ELSE @ ]

\* _update_statistics with the error test on the number: 400 <= status < 600,
\* which for a text of digits is three digits of which the first is 4 or 5.
_update_statistics_numeric(self, parsed) ==
    LET ip       == Field(parsed, "ip", Unknown)
        method   == Field(parsed, "method", Unknown)
        endpoint == Field(parsed, "endpoint", Unknown)
        status   == Field(parsed, "status", <<"0", "0", "0">>)
    IN  [ self EXCEPT
            !.total_requests = @ + 1,
            !.ip_requests    = Increment(@, ip),
            !.endpoints      = Increment(@, endpoint),
            !.status_codes   = Increment(@, status),
            !.methods        = Increment(@, method),
            !.ip_errors      = IF /\ Len(status) = 3
                                  /\ StartsWith(status, "4") \/ StartsWith(status, "5")
                               THEN Increment(@, ip)
                               ELSE @ ]

\* _update_statistics returning before the path is counted when the status
\* is an error.
_update_statistics_paths_of_successes(self, parsed) ==
    LET ip       == Field(parsed, "ip", Unknown)
        method   == Field(parsed, "method", Unknown)
        endpoint == Field(parsed, "endpoint", Unknown)
        status   == Field(parsed, "status", <<"0", "0", "0">>)
        error    == StartsWith(status, "4") \/ StartsWith(status, "5")
    IN  [ self EXCEPT
            !.total_requests = @ + 1,
            !.ip_requests    = Increment(@, ip),
            !.endpoints      = IF error THEN @ ELSE Increment(@, endpoint),
            !.status_codes   = Increment(@, status),
            !.methods        = Increment(@, method),
            !.ip_errors      = IF error THEN Increment(@, ip) ELSE @ ]

\* _update_statistics counting only the statuses that start with 5 as errors.
_update_statistics_server_errors(self, parsed) ==
    LET ip       == Field(parsed, "ip", Unknown)
        method   == Field(parsed, "method", Unknown)
        endpoint == Field(parsed, "endpoint", Unknown)
        status   == Field(parsed, "status", <<"0", "0", "0">>)
    IN  [ self EXCEPT
            !.total_requests = @ + 1,
            !.ip_requests    = Increment(@, ip),
            !.endpoints      = Increment(@, endpoint),
            !.status_codes   = Increment(@, status),
            !.methods        = Increment(@, method),
            !.ip_errors      = IF StartsWith(status, "5") THEN Increment(@, ip) ELSE @ ]

\* _update_statistics(parsed): the analyzer after the update.
_update_statistics(self, parsed) ==
    LET ip       == Field(parsed, "ip", Unknown)
        method   == Field(parsed, "method", Unknown)
        endpoint == Field(parsed, "endpoint", Unknown)
        status   == Field(parsed, "status", <<"0", "0", "0">>)
    IN  [ self EXCEPT
            !.total_requests = @ + 1,
            !.ip_requests    = Increment(@, ip),
            !.endpoints      = Increment(@, endpoint),
            !.status_codes   = Increment(@, status),
            !.methods        = Increment(@, method),
            !.ip_errors      = IF StartsWith(status, "4") \/ StartsWith(status, "5")
                               THEN Increment(@, ip)
                               ELSE @ ]

\* The capacity of failed_lines and the length its texts are cut to.
MaxFailedLines == 10

FailedLineChars == 100

\* The loop body cutting the line before it is stripped: line[:100].strip().
process_line_cut_unstripped(self, line_num, line) ==
    LET parsed == parse_line(line) IN
    IF parsed # None
    THEN _update_statistics(self, parsed)
    ELSE IF Len(self.failed_lines) < MaxFailedLines
         THEN [ self EXCEPT !.failed_lines =
                    Append(@, <<line_num, Strip(Take(line, FailedLineChars))>>) ]
         ELSE self

\* The loop body keeping the last ten failures: append, then drop the oldest
\* entry beyond the capacity.
process_line_keep_last(self, line_num, line) ==
    LET parsed == parse_line(line) IN
    IF parsed # None
    THEN _update_statistics(self, parsed)
    ELSE LET all == Append(self.failed_lines,
                           <<line_num, Take(Strip(line), FailedLineChars)>>)
         IN  [ self EXCEPT !.failed_lines =
                   IF Len(all) > MaxFailedLines THEN Tail(all) ELSE all ]

\* The loop body with the capacity test written <= instead of <.
process_line_one_more(self, line_num, line) ==
    LET parsed == parse_line(line) IN
    IF parsed # None
    THEN _update_statistics(self, parsed)
    ELSE IF Len(self.failed_lines) <= MaxFailedLines
         THEN [ self EXCEPT !.failed_lines =
                    Append(@, <<line_num, Take(Strip(line), FailedLineChars)>>) ]
         ELSE self

\* The body of the loop of process_log_file for one line read from the
\* file: the analyzer after the line numbered line_num.
process_line(self, line_num, line) ==
    LET parsed == parse_line(line) IN
    IF parsed # None
    THEN _update_statistics(self, parsed)
    ELSE IF Len(self.failed_lines) < MaxFailedLines
         THEN [ self EXCEPT !.failed_lines =
                    Append(@, <<line_num, Take(Strip(line), FailedLineChars)>>) ]
         ELSE self

\* The loop of process_log_file over the lines of a file, numbered from
\* line_num + 1: the analyzer after the last of them.
RECURSIVE process_lines(_, _, _)
process_lines(self, line_num, lines) ==
    IF lines = <<>> THEN self
    ELSE process_lines(process_line(self, line_num + 1, Head(lines)),
                       line_num + 1, Tail(lines))

(***************************************************************************)
(* Sorting.  list.sort(key=..., reverse=True) and sorted(..., reverse=True)*)
(* are stable: elements with equal keys keep their original order.  The    *)
(* elements are tuples and the key is the component col.                   *)
(***************************************************************************)
\* InsertDesc placing x before the elements with an equal key: the order of
\* ties is reversed.
InsertDescBeforeEqual(sorted, x, col) ==
    LET before == Cardinality({i \in DOMAIN sorted : sorted[i][col] > x[col]})
    IN  SubSeq(sorted, 1, before) \o <<x>> \o SubSeq(sorted, before + 1, Len(sorted))

\* x inserted into the descending sequence sorted, after every element
\* whose key is greater than or equal to its own.
InsertDesc(sorted, x, col) ==
    LET before == Cardinality({i \in DOMAIN sorted : sorted[i][col] >= x[col]})
    IN  SubSeq(sorted, 1, before) \o <<x>> \o SubSeq(sorted, before + 1, Len(sorted))

RECURSIVE SortDescFrom(_, _, _)
SortDescFrom(sorted, rest, col) ==
    IF rest = <<>> THEN sorted
    ELSE SortDescFrom(InsertDesc(sorted, Head(rest), col), Tail(rest), col)

SortDesc(seq, col) == SortDescFrom(<<>>, seq, col)

\* Counter.most_common(): the items by descending count, ties in insertion
\* order.
most_common(counter) == SortDesc(counter, 2)

\* The first n items in insertion order, then sorted: cut before ranking.
most_common_n_cut_first(counter, n) == most_common(Take(counter, n))

\* Counter.most_common(n) is heapq.nlargest(n, items, key=count), which
\* returns what sorted(items, key=count, reverse=True)[:n] returns.
most_common_n(counter, n) == Take(most_common(counter), n)

\* The number of entries of top_endpoints and top_ips.
TopN == 20

(***************************************************************************)
(* Fractions for the float error rate, and round(x, 3).                    *)
(***************************************************************************)
RECURSIVE GCD(_, _)
GCD(a, b) == IF b = 0 THEN a ELSE GCD(b, a % b)

\* errors / total if total > 0 else 0
ErrorRate(errors, total) ==
    IF total > 0
    THEN [num |-> errors \div GCD(errors, total), den |-> total \div GCD(errors, total)]
    ELSE [num |-> 0, den |-> 1]

\* x >= y for fractions with positive denominators
RateAtLeast(x, y) == x.num * y.den >= y.num * x.den

\* round(x, 3) as a number of thousandths.  A tie (x exactly between two
\* thousandths) needs a denominator that is a multiple of 16, more than the
\* requests of a client here; it is written as going to the even neighbour.
Round3(x) ==
    LET q == (x.num * 1000) \div x.den
        r == (x.num * 1000) % x.den
    IN  IF 2 * r > x.den THEN q + 1
        ELSE IF 2 * r < x.den THEN q
        ELSE IF q % 2 = 0 THEN q ELSE q + 1

(***************************************************************************)
(* identify_suspicious_ips: the tuples (ip, total, errors, error_rate) of  *)
(* the clients over both thresholds, sorted by errors descending.          *)
(***************************************************************************)
\* The test with "or" for "and".
IsSuspiciousEither(self, errors, error_rate) ==
    \/ errors >= self.error_threshold
    \/ RateAtLeast(error_rate, self.error_rate_threshold)

\* errors >= self.error_threshold and error_rate >= self.error_rate_threshold
IsSuspicious(self, errors, error_rate) ==
    /\ errors >= self.error_threshold
    /\ RateAtLeast(error_rate, self.error_rate_threshold)

\* The loop over self.ip_requests.items(), in the dict's order.
RECURSIVE SuspiciousAmong(_, _)
SuspiciousAmong(self, items) ==
    IF items = <<>> THEN <<>>
    ELSE LET ip         == Head(items)[1]
             total      == Head(items)[2]
             errors     == Get(self.ip_errors, ip, 0)
             error_rate == ErrorRate(errors, total)
         IN  (IF IsSuspicious(self, errors, error_rate)
              THEN << <<ip, total, errors, error_rate>> >>
              ELSE <<>>)
             \o SuspiciousAmong(self, Tail(items))

identify_suspicious_ips(self) == SortDesc(SuspiciousAmong(self, self.ip_requests), 3)

\* What the lookups of the loop leave in ip_errors, a defaultdict(int).
\* Written self.ip_errors[ip], a lookup inserts a missing key with 0.
AfterIndexing(d, k) == IF k \in Keys(d) THEN d ELSE Append(d, <<k, 0>>)

\* self.ip_errors.get(ip, 0) inserts nothing: the dict after the lookup.
AfterGet(d, k) == d

RECURSIVE ErrorsAfterLookups(_, _)
ErrorsAfterLookups(ip_errors, items) ==
    IF items = <<>> THEN ip_errors
    ELSE ErrorsAfterLookups(AfterGet(ip_errors, Head(items)[1]), Tail(items))

\* The analyzer after identify_suspicious_ips: the loop reads ip_requests
\* through items() and looks every client up in ip_errors.
after_identify_suspicious_ips(self) ==
    [ self EXCEPT !.ip_errors = ErrorsAfterLookups(@, self.ip_requests) ]

(***************************************************************************)
(* generate_statistics.  Every list and dict of the report is an object    *)
(* built by the call (dict(...), a list comprehension): NewObject.  An     *)
(* object that is instead one of the analyzer's own containers would be a  *)
(* reference to that field, read through ValueOf.                          *)
(***************************************************************************)
NewObject(v) == [shared |-> FALSE, val |-> v]

ValueOf(obj, self) == IF obj.shared THEN self[obj.field] ELSE obj.val

\* [{'endpoint': endpoint, 'requests': count} for endpoint, count in ...]
TopEndpointEntries(items) ==
    [i \in DOMAIN items |-> [endpoint |-> items[i][1], requests |-> items[i][2]]]

\* [{'ip': ip, 'requests': count} for ip, count in ...]
TopIpEntries(items) ==
    [i \in DOMAIN items |-> [ip |-> items[i][1], requests |-> items[i][2]]]

\* [{'ip': ..., 'total_requests': ..., 'errors': ..., 'error_rate': round(error_rate, 3)} ...]
SuspiciousEntries(tuples) ==
    [i \in DOMAIN tuples |->
        [ ip             |-> tuples[i][1],
          total_requests |-> tuples[i][2],
          errors         |-> tuples[i][3],
          error_rate     |-> Round3(tuples[i][4]) ]]

\* 'http_methods': self.methods, the analyzer's own Counter.
HttpMethodsShared(self) == [shared |-> TRUE, field |-> "methods"]

\* 'http_methods': dict(self.methods.most_common())
HttpMethods(self) == NewObject(most_common(self.methods))

\* The summary with the clients counted in ip_errors.
SummaryOfErrors(self, suspicious_ips) ==
    [ total_requests       |-> self.total_requests,
      unique_ips           |-> Len(self.ip_errors),
      unique_endpoints     |-> Len(self.endpoints),
      unique_status_codes  |-> Len(self.status_codes),
      suspicious_ips_count |-> Len(suspicious_ips) ]

\* The 'summary' of the report.
Summary(self, suspicious_ips) ==
    [ total_requests       |-> self.total_requests,
      unique_ips           |-> Len(self.ip_requests),
      unique_endpoints     |-> Len(self.endpoints),
      unique_status_codes  |-> Len(self.status_codes),
      suspicious_ips_count |-> Len(suspicious_ips) ]

generate_statistics(self) ==
    LET suspicious_ips == identify_suspicious_ips(self) IN
    [ summary      |-> Summary(self, suspicious_ips),
      http_methods |-> HttpMethods(self),
      status_codes |->
        [ breakdown |-> NewObject(most_common(self.status_codes)),
          summary   |->
            [ 2xx_success      |-> SumStartingWith(self.status_codes, "2"),
              3xx_redirect     |-> SumStartingWith(self.status_codes, "3"),
              4xx_client_error |-> SumStartingWith(self.status_codes, "4"),
              5xx_server_error |-> SumStartingWith(self.status_codes, "5") ] ],
      top_endpoints  |-> NewObject(TopEndpointEntries(most_common_n(self.endpoints, TopN))),
      top_ips        |-> NewObject(TopIpEntries(most_common_n(self.ip_requests, TopN))),
      suspicious_ips |-> NewObject(SuspiciousEntries(suspicious_ips)) ]

\* The analyzer after generate_statistics: it calls identify_suspicious_ips;
\* len(), items(), most_common() and Counter(self.ip_requests) read the
\* analyzer's containers and build new ones.
after_generate_statistics(self) == after_identify_suspicious_ips(self)

\* A report as its holder reads it: every object replaced by its value.
ReportValue(r, self) ==
    [ r EXCEPT
        !.http_methods           = ValueOf(@, self),
        !.status_codes.breakdown = ValueOf(@, self),
        !.top_endpoints          = ValueOf(@, self),
        !.top_ips                = ValueOf(@, self),
        !.suspicious_ips         = ValueOf(@, self) ]

(***************************************************************************)
(* display_console_report: the percentages it computes, in the order it    *)
(* prints them.  count / total raises ZeroDivisionError when total is 0.   *)
(***************************************************************************)
ZeroDivisionError == "ZeroDivisionError"

\* The outcome of a division that raised.
ZeroDivision == [raised |-> ZeroDivisionError]

\* (count / total) * 100, as a fraction in lowest terms
Percentage(count, total) ==
    IF total = 0 THEN ZeroDivision
    ELSE [ num |-> (count * 100) \div GCD(count * 100, total),
           den |-> total \div GCD(count * 100, total) ]

\* The loop over the status summary without its test of count.
SummaryCountsShownAll(status_summary) ==
    << status_summary["2xx_success"], status_summary["3xx_redirect"],
       status_summary["4xx_client_error"], status_summary["5xx_server_error"] >>

\* for category, count in status_summary.items(): if count > 0: ...
SummaryCountsShown(status_summary) ==
    SelectSeq(<< status_summary["2xx_success"], status_summary["3xx_redirect"],
                 status_summary["4xx_client_error"],
                 status_summary["5xx_server_error"] >>,
              LAMBDA count : count > 0)

\* The counts display_console_report divides by total_requests: the methods
\* (sorted by count again), the status summary, the first 10 of the
\* breakdown, the first 15 of top_endpoints and of top_ips.
DisplayedCounts(self, stats) ==
    LET http_methods  == SortDesc(ValueOf(stats.http_methods, self), 2)
        breakdown     == Take(ValueOf(stats.status_codes.breakdown, self), 10)
        top_endpoints == Take(ValueOf(stats.top_endpoints, self), 15)
        top_ips       == Take(ValueOf(stats.top_ips, self), 15)
    IN  [i \in DOMAIN http_methods |-> http_methods[i][2]]
        \o SummaryCountsShown(stats.status_codes.summary)
        \o [i \in DOMAIN breakdown |-> breakdown[i][2]]
        \o [i \in DOMAIN top_endpoints |-> top_endpoints[i].requests]
        \o [i \in DOMAIN top_ips |-> top_ips[i].requests]

\* The percentages of one call, each a fraction or ZeroDivision.
display_console_report(self) ==
    LET stats  == generate_statistics(self)
        counts == DisplayedCounts(self, stats)
    IN  [i \in DOMAIN counts |-> Percentage(counts[i], stats.summary.total_requests)]

\* The percentages before the first division that raises.
RECURSIVE UntilRaise(_)
UntilRaise(percentages) ==
    IF percentages = <<>> \/ Head(percentages) = ZeroDivision THEN <<>>
    ELSE <<Head(percentages)>> \o UntilRaise(Tail(percentages))

(***************************************************************************)
(* The lines read from log files.                                          *)
(***************************************************************************)
IpA == <<"1", "0", ".", "0", ".", "0", ".", "1">>

IpB == <<"1", "0", ".", "0", ".", "0", ".", "2">>

IpC == <<"1", "0", ".", "0", ".", "0", ".", "3">>

GET == <<"G", "E", "T">>

POST == <<"P", "O", "S", "T">>

PathA == <<"/", "a">>

PathB == <<"/", "b">>

Dash == <<"-">>

\* One access-log line, ending with its line break:
\* ip - user [timestamp] "method endpoint HTTP/1.1" status bytes
LogLine(ip, user, method, endpoint, status, bytes) ==
    ip \o <<" ", "-", " ">> \o user \o <<" ", "[", "1", "0", "/", "O", "c", ":", "0", "0", "]", " ", "\"">>
       \o method \o <<" ">> \o endpoint
       \o <<" ", "H", "T", "T", "P", "/", "1", ".", "1", "\"", " ">>
       \o status \o <<" ">> \o bytes \o <<"\n">>

LineA200 == LogLine(IpA, Dash, GET, PathA, <<"2", "0", "0">>, <<"1", "2">>)

LineA404 == LogLine(IpA, Dash, GET, PathB, <<"4", "0", "4">>, Dash)

LineA500 == LogLine(IpA, Dash, GET, PathA, <<"5", "0", "0">>, <<"7">>)

LineB500 == LogLine(IpB, Dash, POST, PathB, <<"5", "0", "0">>, <<"7">>)

LineB301 == LogLine(IpB, Dash, GET, PathA, <<"3", "0", "1">>, <<"0">>)

\* The extended format: an authenticated user between the address and the timestamp.
LineC404 == LogLine(IpC, <<"b", "o", "b">>, GET, PathA, <<"4", "0", "4">>, <<"5">>)

\* Status codes of one and of four digits, and one that starts with 6; byte
\* counts made of digits and dashes.
LineA4 == LogLine(IpA, Dash, GET, PathB, <<"4">>, Dash)

LineB5000 == LogLine(IpB, Dash, POST, PathB, <<"5", "0", "0", "0">>, <<"1", "-", "2">>)

LineB600 == LogLine(IpB, Dash, GET, PathA, <<"6", "0", "0">>, <<"-", "-">>)

\* Text that matches no pattern.
LineGarbage == <<"o", "o", "p", "s", "!", "\n">>

\* Unparsable text of more than 100 characters once stripped, after a
\* leading blank.
LineLong == <<" ">> \o [i \in 1..(FailedLineChars + 1) |-> "o"] \o <<"!", "\n">>

\* A line that is empty once stripped.
LineBlank == <<" ", "\n">>

\* str(n) in two characters, for 0 <= n <= 99.
Digits == <<"0", "1", "2", "3", "4", "5", "6", "7", "8", "9">>

TwoDigits(n) == <<Digits[(n \div 10) + 1], Digits[(n % 10) + 1]>>

\* The n-th client and the n-th path of a log with many of them.
IpNo(n) == <<"1", "0", ".", "0", ".">> \o TwoDigits(n)

PathNo(n) == <<"/">> \o TwoDigits(n)

\* A request of client i for path p.
TopLine(i, p) == LogLine(IpNo(i), Dash, GET, PathNo(p), <<"2", "0", "0">>, <<"7">>)

MixedLines == {LineA200, LineA404, LineB500, LineB301, LineC404, LineGarbage, LineBlank}

FloodLines == {LineGarbage}

ScenarioLines == {LineA200, LineA500, LineB500}

MergeLines == {LineA200, LineA404, LineB500, LineC404}

SampleLines == {LineGarbage, LineLong, LineA200}

CodeLines == {LineA200, LineA4, LineB5000, LineB600, LineGarbage}

(***************************************************************************)
(* Bounds of the model.                                                    *)
(***************************************************************************)
\* Lines read in all, per specification.
MaxLines == 3

MaxFloodLines == 12

MaxScenarioLines == 12

MaxMergeLines == 4

MaxCodeLines == 3

MaxConfigLines == 3

\* Calls of generate_statistics between two lines.
MaxReportCalls == 2

\* A log with many clients and paths: its first ManyKeys lines are requests
\* of ManyKeys clients for ManyKeys paths, and MaxTopLines lines follow.
ManyKeys == 19

MaxTopLines == 3

ManyFirstLines == [n \in 1..ManyKeys |-> TopLine(n, n)]

\* The lines that follow: two new clients and paths, a new client for a
\* path seen before and a new path for a client seen before.
TopLines ==
    { TopLine(ManyKeys + 1, ManyKeys + 1), TopLine(ManyKeys + 2, ManyKeys + 2),
      TopLine(ManyKeys + 2, 3), TopLine(3, ManyKeys + 3) }

\* A log that starts with FirstFailures unparsable lines; MaxSampleLines
\* lines follow, in this file or in later ones.
FirstFailures == 9

MaxSampleLines == 3

SampleFirstLines == [n \in 1..FirstFailures |-> LineGarbage]

\* The thresholds an analyzer is constructed with: <<error_threshold,
\* error_rate_threshold>>.
Half == [num |-> 1, den |-> 2]

LowThresholds == {<<1, Half>>}

MergeThresholds == {<<2, Half>>}

ScenarioThresholds == {<<DefaultErrorThreshold, DefaultErrorRateThreshold>>, <<2, Half>>}

\* Error rates a caller can pass: 0, 0.5, 1, and -0.5 and 1.5.
ConfigThresholds ==
    { <<1, [num |-> 0, den |-> 1]>>, <<1, Half>>, <<1, [num |-> 1, den |-> 1]>>,
      <<1, [num |-> -1, den |-> 2]>>, <<1, [num |-> 3, den |-> 2]>> }

\* Those main() lets through.
MainThresholds == {t \in ConfigThresholds : main_accepts(t[2])}

(***************************************************************************)
(* The state: one analyzer and its caller.                                 *)
(***************************************************************************)
VARIABLES
    self,           \* the LogAnalyzer
    in_file,        \* process_log_file has been called
    line_num,       \* line_num of the running process_log_file loop
    lines_read,     \* lines read in all
    report,         \* the report generate_statistics returned last, or None
    suspicious,     \* [held, list]: the list identify_suspicious_ips returned,
                    \* held by the caller until its next call
    report_calls,   \* calls of generate_statistics since the last line read
    parsed_lines,   \* history: how many lines parse_line accepted
    parsed_seen,    \* history: the clients (in the order they first appeared),
                    \* the paths and the status codes of those lines
    shards,         \* a sharded run beside self: one [analyzer, line_num] per
                    \* contiguous chunk of the lines; <<>> when there is none
    raised,         \* the exception the caller's last call raised, or NoException
    console         \* [shown, percentages]: the percentages the caller's last
                    \* call printed, when it was display_console_report

vars == <<self, in_file, line_num, lines_read, report, suspicious, report_calls,
          parsed_lines, parsed_seen, shards, raised, console>>

\* The last shard takes the line, as self does in ReadLine.
ShardsAfter(line) ==
    IF shards = <<>> THEN shards
    ELSE [ shards EXCEPT ![Len(shards)] =
             [ analyzer |-> process_line(@.analyzer, @.line_num + 1, line),
               line_num |-> @.line_num + 1 ] ]

\* The caller holds no list.
NoList == [held |-> FALSE, list |-> <<>>]

\* The last call returned normally.
NoException == "None"

\* The last call was not display_console_report.
NoConsole == [shown |-> FALSE, percentages |-> <<>>]

InitWith(thresholds, sharded) ==
    /\ \E t \in thresholds : self = LogAnalyzer(t[1], t[2])
    /\ shards = IF sharded THEN << [analyzer |-> self, line_num |-> 0] >> ELSE <<>>
    /\ in_file = FALSE
    /\ line_num = 0
    /\ lines_read = 0
    /\ report = None
    /\ suspicious = NoList
    /\ report_calls = 0
    /\ parsed_lines = 0
    /\ parsed_seen = [ips |-> <<>>, endpoints |-> {}, statuses |-> {}]
    /\ raised = NoException
    /\ console = NoConsole

\* History: parsed_seen after one more line, parsed or not.
SeenWith(seen, parsed) ==
    IF parsed # None
    THEN [ ips       |-> IF \E i \in DOMAIN seen.ips : seen.ips[i] = parsed.ip
                         THEN seen.ips
                         ELSE Append(seen.ips, parsed.ip),
           endpoints |-> seen.endpoints \cup {parsed.endpoint},
           statuses  |-> seen.statuses \cup {parsed.status} ]
    ELSE seen

RECURSIVE SeenAfter(_, _)
SeenAfter(seen, lines) ==
    IF lines = <<>> THEN seen
    ELSE SeenAfter(SeenWith(seen, parse_line(Head(lines))), Tail(lines))

\* The loop of process_log_file has read the first lines of a first file.
InitAfter(thresholds, lines) ==
    /\ \E t \in thresholds : self = process_lines(LogAnalyzer(t[1], t[2]), 0, lines)
    /\ shards = <<>>
    /\ in_file = TRUE
    /\ line_num = Len(lines)
    /\ lines_read = Len(lines)
    /\ report = None
    /\ suspicious = NoList
    /\ report_calls = 0
    /\ parsed_lines = Cardinality({i \in DOMAIN lines : parse_line(lines[i]) # None})
    /\ parsed_seen = SeenAfter([ips |-> <<>>, endpoints |-> {}, statuses |-> {}], lines)
    /\ raised = NoException
    /\ console = NoConsole

\* process_log_file is called on an existing file: the loop starts.  (A call
\* on a file without lines changes nothing; two in a row are left out.)
OpenLogFile ==
    /\ ~in_file \/ line_num > 0
    /\ in_file' = TRUE
    /\ line_num' = 0
    /\ suspicious' = NoList
    /\ raised' = NoException
    /\ console' = NoConsole
    /\ UNCHANGED <<self, lines_read, report, report_calls, parsed_lines, parsed_seen,
                   shards>>

\* The exception process_log_file raises for a path that does not exist.
FileNotFoundError == "FileNotFoundError"

\* process_log_file on a missing path starting over with empty counters
\* before it looks for the file.
ProcessMissingLogFileAfterReset ==
    /\ raised' = FileNotFoundError
    /\ self' = LogAnalyzer(self.error_threshold, self.error_rate_threshold)
    /\ in_file' = FALSE
    /\ line_num' = 0
    /\ suspicious' = NoList
    /\ console' = NoConsole
    /\ UNCHANGED <<lines_read, report, report_calls, parsed_lines, parsed_seen, shards>>

\* process_log_file is called on a path that does not exist: it raises
\* FileNotFoundError before it opens anything, and no loop runs.
ProcessMissingLogFile ==
    /\ raised' = FileNotFoundError
    /\ in_file' = FALSE
    /\ line_num' = 0
    /\ suspicious' = NoList
    /\ console' = NoConsole
    /\ UNCHANGED <<self, lines_read, report, report_calls, parsed_lines, parsed_seen,
                   shards>>

\* One iteration of the loop of process_log_file: enumerate(f, 1) gives the
\* next line its number and the loop body takes it.
ReadLine(lines, max) ==
    \E line \in lines :
        LET parsed == parse_line(line) IN
        /\ in_file
        /\ lines_read < max
        /\ line_num' = line_num + 1
        /\ lines_read' = lines_read + 1
        /\ self' = process_line(self, line_num + 1, line)
        /\ suspicious' = NoList
        /\ report_calls' = 0
        /\ parsed_lines' = IF parsed # None THEN parsed_lines + 1 ELSE parsed_lines
        /\ parsed_seen' = SeenWith(parsed_seen, parsed)
        /\ shards' = ShardsAfter(line)
        /\ raised' = NoException
        /\ console' = NoConsole
        /\ UNCHANGED <<in_file, report>>

\* generate_statistics clearing the error counters once reported.
CallGenerateStatisticsResetting ==
    /\ report_calls < MaxReportCalls
    /\ report' = generate_statistics(self)
    /\ report_calls' = report_calls + 1
    /\ suspicious' = NoList
    /\ raised' = NoException
    /\ console' = NoConsole
    /\ self' = [self EXCEPT !.ip_errors = <<>>]
    /\ UNCHANGED <<in_file, line_num, lines_read, parsed_lines, parsed_seen, shards>>

\* A call of generate_statistics; the caller keeps the report.
CallGenerateStatistics ==
    /\ report_calls < MaxReportCalls
    /\ report' = generate_statistics(self)
    /\ report_calls' = report_calls + 1
    /\ self' = after_generate_statistics(self)
    /\ suspicious' = NoList
    /\ raised' = NoException
    /\ console' = NoConsole
    /\ UNCHANGED <<in_file, line_num, lines_read, parsed_lines, parsed_seen, shards>>

\* A call of identify_suspicious_ips; the caller keeps the list.
CallIdentifySuspiciousIps ==
    /\ suspicious' = [held |-> TRUE, list |-> identify_suspicious_ips(self)]
    /\ self' = after_identify_suspicious_ips(self)
    /\ raised' = NoException
    /\ console' = NoConsole
    /\ UNCHANGED <<in_file, line_num, lines_read, report, report_calls,
                   parsed_lines, parsed_seen, shards>>

\* A call of display_console_report: it builds a report of its own and
\* prints the percentages up to a division that raises, if one does.
CallDisplayConsoleReport ==
    LET percentages == display_console_report(self) IN
    /\ console' = [shown |-> TRUE, percentages |-> UntilRaise(percentages)]
    /\ raised' = IF \E i \in DOMAIN percentages : percentages[i] = ZeroDivision
                 THEN ZeroDivisionError
                 ELSE NoException
    /\ self' = after_generate_statistics(self)
    /\ suspicious' = NoList
    /\ UNCHANGED <<in_file, line_num, lines_read, report, report_calls,
                   parsed_lines, parsed_seen, shards>>

\* A chunk ends and the next begins, in a fresh analyzer with the thresholds
\* of self.
StartShard ==
    /\ shards # <<>>
    /\ shards[Len(shards)].line_num > 0
    /\ shards' = Append(shards,
                        [ analyzer |-> LogAnalyzer(self.error_threshold,
                                                   self.error_rate_threshold),
                          line_num |-> 0 ])
    /\ UNCHANGED <<self, in_file, line_num, lines_read, report, suspicious,
                   report_calls, parsed_lines, parsed_seen, raised, console>>

(***************************************************************************)
(* Merging shards: the counters summed field by field, in chunk order.     *)
(***************************************************************************)
\* The counts of b added to a: a key of a keeps its place, a new key of b
\* follows in b's order.
RECURSIVE AddCounts(_, _)
AddCounts(a, b) ==
    IF b = <<>> THEN a
    ELSE LET k == Head(b)[1]
             n == Head(b)[2]
         IN  AddCounts(IF k \in Keys(a)
                       THEN [i \in DOMAIN a |->
                                IF a[i][1] = k THEN <<k, a[i][2] + n>> ELSE a[i]]
                       ELSE Append(a, <<k, n>>),
                       Tail(b))

MergeTwo(a, b) ==
    [ a EXCEPT
        !.total_requests = @ + b.total_requests,
        !.ip_requests    = AddCounts(@, b.ip_requests),
        !.ip_errors      = AddCounts(@, b.ip_errors),
        !.endpoints      = AddCounts(@, b.endpoints),
        !.status_codes   = AddCounts(@, b.status_codes),
        !.methods        = AddCounts(@, b.methods) ]

RECURSIVE MergeFrom(_, _)
MergeFrom(merged, rest) ==
    IF rest = <<>> THEN merged
    ELSE MergeFrom(MergeTwo(merged, Head(rest).analyzer), Tail(rest))

Merged == MergeFrom(shards[1].analyzer, Tail(shards))

(***************************************************************************)
(* Specifications.                                                         *)
(***************************************************************************)
\* Mixed lines, few of them: every operation in any order.
Init == InitWith(LowThresholds, FALSE)

Next ==
    \/ OpenLogFile
    \/ ReadLine(MixedLines, MaxLines)
    \/ CallGenerateStatistics
    \/ CallIdentifySuspiciousIps

Spec == Init /\ [][Next]_vars

\* Many failing lines, over any number of files.
NextFlood ==
    \/ OpenLogFile
    \/ ReadLine(FloodLines, MaxFloodLines)

SpecFlood == Init /\ [][NextFlood]_vars

\* Many requests of few clients, under the default thresholds and lower ones.
InitScenario == InitWith(ScenarioThresholds, FALSE)

NextScenario ==
    \/ OpenLogFile
    \/ ReadLine(ScenarioLines, MaxScenarioLines)
    \/ CallIdentifySuspiciousIps

SpecScenario == InitScenario /\ [][NextScenario]_vars

\* A sharded run beside the single analyzer.
InitMerge == InitWith(MergeThresholds, TRUE)

NextMerge ==
    \/ OpenLogFile
    \/ StartShard
    \/ ReadLine(MergeLines, MaxMergeLines)

SpecMerge == InitMerge /\ [][NextMerge]_vars

\* The analyzer constructed by main() from the command line, or by another
\* caller of the class with any of the rates.
InitConfig ==
    \/ InitWith(MainThresholds, FALSE)
    \/ InitWith(ConfigThresholds, FALSE)

NextConfig ==
    \/ OpenLogFile
    \/ ReadLine(ScenarioLines, MaxConfigLines)
    \/ CallIdentifySuspiciousIps

SpecConfig == InitConfig /\ [][NextConfig]_vars

\* A log with more unparsable lines than the sample holds, and calls on
\* missing files.
InitSample == InitAfter(LowThresholds, SampleFirstLines)

NextSample ==
    \/ OpenLogFile
    \/ ProcessMissingLogFile
    \/ ReadLine(SampleLines, FirstFailures + MaxSampleLines)

SpecSample == InitSample /\ [][NextSample]_vars

\* Unusual status codes and byte counts.
NextCodes ==
    \/ OpenLogFile
    \/ ReadLine(CodeLines, MaxCodeLines)
    \/ CallGenerateStatistics
    \/ CallIdentifySuspiciousIps
    \/ CallDisplayConsoleReport

SpecCodes == Init /\ [][NextCodes]_vars

\* A log with more than twenty clients and paths.
InitTop == InitAfter(LowThresholds, ManyFirstLines)

NextTop ==
    \/ OpenLogFile
    \/ ReadLine(TopLines, ManyKeys + MaxTopLines)
    \/ CallGenerateStatistics

SpecTop == InitTop /\ [][NextTop]_vars

(***************************************************************************)
(* Properties.                                                             *)
(***************************************************************************)
\* C1: after any sequence of lines read (parsable, unparsable, empty),
\* total_requests is the sum of the values of ip_requests.
C1_TotalIsSumOfClients == self.total_requests = SumValues(self.ip_requests)

C1_Witness ==
    /\ self.total_requests >= 2
    /\ Len(self.ip_requests) >= 2
    /\ Len(self.failed_lines) >= 1

\* C2: in every state, also after identify_suspicious_ips and
\* generate_statistics were called, every key of ip_errors is a key of
\* ip_requests and its error count is at most its request count.
C2_ErrorsWithinRequests ==
    \A i \in DOMAIN self.ip_errors :
        /\ self.ip_errors[i][1] \in Keys(self.ip_requests)
        /\ self.ip_errors[i][2] <= Get(self.ip_requests, self.ip_errors[i][1], 0)

C2_Witness ==
    /\ suspicious.held
    /\ report_calls >= 1
    /\ Len(self.ip_errors) = 1
    /\ Len(self.ip_requests) = 2
    /\ self.ip_errors[1][2] < Get(self.ip_requests, self.ip_errors[1][1], 0)

\* C3: a client with at least one request is in the list that
\* identify_suspicious_ips returned iff its errors reach error_threshold AND
\* its errors / requests reach error_rate_threshold; a listed client is
\* listed once, with its request and error counts.
C3_SuspiciousIffBothThresholds ==
    suspicious.held =>
        /\ \A i \in DOMAIN self.ip_requests :
              LET c        == self.ip_requests[i][1]
                  requests == self.ip_requests[i][2]
                  errors   == Get(self.ip_errors, c, 0)
                  listed   == {j \in DOMAIN suspicious.list : suspicious.list[j][1] = c}
              IN  /\ (listed # {}) <=>
                        /\ errors >= self.error_threshold
                        /\ errors * self.error_rate_threshold.den
                              >= self.error_rate_threshold.num * requests
                  /\ Cardinality(listed) <= 1
                  /\ \A j \in listed : /\ suspicious.list[j][2] = requests
                                       /\ suspicious.list[j][3] = errors
        /\ \A j \in DOMAIN suspicious.list :
              suspicious.list[j][1] \in Keys(self.ip_requests)

\* 11 requests with status 500 and 1 with status 200 of one client, under the
\* thresholds (10, 0.5): listed with total_requests = 12 and errors = 11.
C3_Witness ==
    /\ self.error_threshold = 10
    /\ self.error_rate_threshold = [num |-> 1, den |-> 2]
    /\ suspicious.list = << <<IpA, 12, 11, [num |-> 11, den |-> 12]>> >>
    /\ self.status_codes = << << <<"5", "0", "0">>, 11 >>, << <<"2", "0", "0">>, 1 >> >>

\* C4: reading a line that is empty once stripped leaves the whole analyzer
\* as it is, failed_lines included.
C4_BlankLineLeavesStateUnchanged ==
    [][ \A line \in MixedLines :
            ( /\ Strip(line) = <<>>
              /\ lines_read' = lines_read + 1
              /\ self' = process_line(self, line_num', line) )
            => self' = self ]_vars

\* C5: failed_lines never holds more than 10 entries, however many failing
\* lines are read and however often process_log_file is called.
C5_SampleAtMostTen == Len(self.failed_lines) <= 10

C5_Witness ==
    /\ Len(self.failed_lines) = 10
    /\ lines_read >= 11
    /\ line_num < lines_read

\* C6: the merge law.  The report of the shards' counters summed field by
\* field in chunk order is the report of the single analyzer that read the
\* whole sequence.
C6_MergeLaw ==
    shards # <<>> => generate_statistics(Merged) = generate_statistics(self)

C6_Witness ==
    /\ Len(shards) >= 2
    /\ \A i \in DOMAIN shards : identify_suspicious_ips(shards[i].analyzer) = <<>>
    /\ identify_suspicious_ips(Merged) # <<>>
    /\ Len(self.ip_requests) >= 2

\* C7: generate_statistics called again with no line read in between
\* returns a report equal to the one before.
C7_ReportRepeats ==
    [][ (report_calls >= 1 /\ report_calls' = report_calls + 1)
            => ReportValue(report', self') = ReportValue(report, self) ]_vars

C7_Witness ==
    /\ report_calls = 2
    /\ report # None
    /\ report.summary.total_requests >= 2
    /\ report.summary.suspicious_ips_count >= 1

\* C8: a report is a snapshot: reading lines after it was returned changes
\* none of its fields.
C8_ReportIsSnapshot ==
    [][ (report # None /\ lines_read' # lines_read)
            => ReportValue(report', self') = ReportValue(report, self) ]_vars

C8_Witness ==
    /\ report # None
    /\ report_calls = 0
    /\ report.summary.total_requests >= 1
    /\ report.summary.total_requests < self.total_requests
    /\ ValueOf(report.http_methods, self) # most_common(self.methods)

\* C9: the summary of a report returned at any point between lines counts
\* what was read so far: the parsed lines, their distinct clients, paths and
\* status codes, and the entries of the report's own suspicious_ips.
C9_SummaryReflectsLinesSoFar ==
    report_calls >= 1 =>
        report.summary =
            [ total_requests       |-> parsed_lines,
              unique_ips           |-> Len(parsed_seen.ips),
              unique_endpoints     |-> Cardinality(parsed_seen.endpoints),
              unique_status_codes  |-> Cardinality(parsed_seen.statuses),
              suspicious_ips_count |-> Len(ValueOf(report.suspicious_ips, self)) ]

C9_Witness ==
    /\ report_calls = 1
    /\ parsed_lines = 2
    /\ Len(parsed_seen.ips) = 2
    /\ Len(self.failed_lines) = 1
    /\ report.summary.suspicious_ips_count = 1
    /\ report.summary.unique_ips = 2

\* The place of client c in the order the clients first appeared in the input.
FirstSeen(c) == CHOOSE i \in DOMAIN parsed_seen.ips : parsed_seen.ips[i] = c

\* C10: the list identify_suspicious_ips returned is in descending order of
\* errors, and clients with equal errors are in the order they first
\* appeared in the input.
C10_SuspiciousOrder ==
    suspicious.held =>
        \A i, j \in DOMAIN suspicious.list :
            i < j =>
                /\ suspicious.list[i][3] >= suspicious.list[j][3]
                /\ suspicious.list[i][3] = suspicious.list[j][3]
                      => FirstSeen(suspicious.list[i][1]) < FirstSeen(suspicious.list[j][1])

C10_Witness ==
    /\ suspicious.held
    /\ Len(suspicious.list) = 2
    /\ suspicious.list[1][3] = suspicious.list[2][3]
    /\ suspicious.list[1][1] = IpB
    /\ suspicious.list[2][1] = IpA

\* The place of key k in the dict d: keys are in the order they were first
\* inserted.
Position(d, k) == CHOOSE i \in DOMAIN d : d[i][1] = k

\* top (a list of entries with the fields key and requests) is the ranking
\* of counter cut to twenty.
IsTopTwenty(counter, top, key) ==
    /\ Len(top) = IF Len(counter) < 20 THEN Len(counter) ELSE 20
    /\ \A i \in DOMAIN top :
          /\ top[i][key] \in Keys(counter)
          /\ top[i].requests = Get(counter, top[i][key], 0)
    /\ \A i, j \in DOMAIN top :
          i < j =>
              /\ top[i][key] # top[j][key]
              /\ top[i].requests >= top[j].requests
              /\ top[i].requests = top[j].requests
                    => Position(counter, top[i][key]) < Position(counter, top[j][key])
    /\ \A n \in DOMAIN counter :
          (\A i \in DOMAIN top : top[i][key] # counter[n][1]) =>
              \A i \in DOMAIN top :
                  /\ counter[n][2] <= top[i].requests
                  /\ counter[n][2] = top[i].requests
                        => Position(counter, top[i][key]) < n

\* C11: top_endpoints and top_ips of a report hold at most 20 entries: the
\* min(20, number of keys) keys with the highest request counts, by
\* descending count, ties in first-seen order; no key left out has a higher
\* count than a key listed.
C11_TopTwenty ==
    report_calls >= 1 =>
        /\ IsTopTwenty(self.endpoints, ValueOf(report.top_endpoints, self), "endpoint")
        /\ IsTopTwenty(self.ip_requests, ValueOf(report.top_ips, self), "ip")

\* 21 clients; the last one seen has two requests and is listed first, the
\* one seen before it has one and is left out.
C11_Witness ==
    /\ report_calls >= 1
    /\ Len(self.ip_requests) = 21
    /\ Len(ValueOf(report.top_ips, self)) = 20
    /\ ValueOf(report.top_ips, self)[1] = [ip |-> self.ip_requests[21][1], requests |-> 2]
    /\ \A i \in 1..20 : ValueOf(report.top_ips, self)[i].ip # self.ip_requests[20][1]
    /\ Len(self.endpoints) = 21
    /\ Len(ValueOf(report.top_endpoints, self)) = 20

\* The requests counted in d under the codes whose first digit is in firsts.
RECURSIVE CountOfCodes(_, _)
CountOfCodes(d, firsts) ==
    IF d = <<>> THEN 0
    ELSE LET code == d[Len(d)][1]
             rest == CountOfCodes(SubSeq(d, 1, Len(d) - 1), firsts)
         IN  IF code[1] \in firsts THEN rest + d[Len(d)][2] ELSE rest

\* C12: in a report each of the buckets 2xx, 3xx, 4xx, 5xx is the sum of the
\* counts of the status codes that start with 2, 3, 4, 5; a code starting
\* with another digit is in no bucket but in the breakdown with its count,
\* so the buckets sum to total_requests minus the count of such codes.
C12_StatusBuckets ==
    report_calls >= 1 =>
        LET buckets   == report.status_codes.summary
            breakdown == ValueOf(report.status_codes.breakdown, self)
        IN  /\ buckets["2xx_success"] = CountOfCodes(self.status_codes, {"2"})
            /\ buckets["3xx_redirect"] = CountOfCodes(self.status_codes, {"3"})
            /\ buckets["4xx_client_error"] = CountOfCodes(self.status_codes, {"4"})
            /\ buckets["5xx_server_error"] = CountOfCodes(self.status_codes, {"5"})
            /\ \A i \in DOMAIN self.status_codes :
                  \E j \in DOMAIN breakdown : breakdown[j] = self.status_codes[i]
            /\ buckets["2xx_success"] + buckets["3xx_redirect"]
                  + buckets["4xx_client_error"] + buckets["5xx_server_error"]
                  = self.total_requests
                      - CountOfCodes(self.status_codes, Digit \ {"2", "3", "4", "5"})

\* A report over the codes 4, 5000 and 600: 600 is in the breakdown only.
C12_Witness ==
    /\ report_calls >= 1
    /\ report.status_codes.summary["4xx_client_error"] = 1
    /\ report.status_codes.summary["5xx_server_error"] = 1
    /\ report.summary.total_requests = 3
    /\ \E j \in DOMAIN ValueOf(report.status_codes.breakdown, self) :
          ValueOf(report.status_codes.breakdown, self)[j] = << <<"6", "0", "0">>, 1 >>

\* C13: no LogAnalyzer exists whose error_rate_threshold is below 0 or
\* above 1: such a rate is rejected when the analyzer is constructed.
C13_RateWithinUnitInterval ==
    /\ 0 <= self.error_rate_threshold.num
    /\ self.error_rate_threshold.num <= self.error_rate_threshold.den

\* C14: process_log_file on a path that does not exist fails with
\* FileNotFoundError before any ingestion: no loop starts, no line is read,
\* and total_requests, the counters and failed_lines are as before the call.
C14_MissingFileChangesNothing ==
    [][ raised' = FileNotFoundError =>
            /\ self' = self
            /\ lines_read' = lines_read
            /\ ~in_file' ]_vars

C14_Witness ==
    /\ raised = FileNotFoundError
    /\ self.total_requests >= 1
    /\ Len(self.failed_lines) = 10
    /\ lines_read = 11

\* The first 100 characters of s.
First100(s) == SubSeq(s, 1, IF Len(s) < 100 THEN Len(s) ELSE 100)

\* C16: reading a non-empty line that matches no pattern leaves
\* total_requests and the five maps unchanged; it appends (line number, first
\* 100 characters of the stripped line) to failed_lines when that has fewer
\* than 10 entries, and changes nothing at all otherwise.
C16_UnmatchedLine ==
    [][ \A line \in SampleLines :
            ( /\ Strip(line) # <<>>
              /\ parse_line(line) = None
              /\ lines_read' = lines_read + 1
              /\ self' = process_line(self, line_num', line) )
            => /\ self'.total_requests = self.total_requests
               /\ self'.ip_requests = self.ip_requests
               /\ self'.ip_errors = self.ip_errors
               /\ self'.endpoints = self.endpoints
               /\ self'.status_codes = self.status_codes
               /\ self'.methods = self.methods
               /\ IF Len(self.failed_lines) < 10
                  THEN self'.failed_lines =
                           Append(self.failed_lines, <<line_num', First100(Strip(line))>>)
                  ELSE self' = self ]_vars

\* The tenth entry is the long line cut to 100 characters, and the failing
\* line read after it left the sample as it was.
C16_Witness ==
    /\ Len(self.failed_lines) = 10
    /\ Len(self.failed_lines[10][2]) = 100
    /\ lines_read = 11
    /\ parsed_lines = 0

\* The map after is the map before with the count of key k one higher (a
\* missing key counting 0) and every other entry as it was.
PlusOneAt(before, after, k) ==
    /\ Keys(after) = Keys(before) \cup {k}
    /\ Len(after) = Cardinality(Keys(after))
    /\ Get(after, k, 0) = Get(before, k, 0) + 1
    /\ \A j \in Keys(before) \ {k} : Get(after, j, 0) = Get(before, j, 0)

\* C15: reading a parsed line with client c, path p, status s and method m
\* adds exactly 1 to total_requests, ip_requests[c], endpoints[p],
\* status_codes[s] and methods[m], adds 1 to ip_errors[c] iff the first
\* character of s is 4 or 5, and leaves every other entry and failed_lines
\* unchanged.
C15_ParsedLine ==
    [][ \A line \in CodeLines :
            LET parsed == parse_line(line) IN
            ( /\ parsed # None
              /\ lines_read' = lines_read + 1
              /\ self' = process_line(self, line_num', line) )
            => /\ self'.total_requests = self.total_requests + 1
               /\ PlusOneAt(self.ip_requests, self'.ip_requests, parsed.ip)
               /\ PlusOneAt(self.endpoints, self'.endpoints, parsed.endpoint)
               /\ PlusOneAt(self.status_codes, self'.status_codes, parsed.status)
               /\ PlusOneAt(self.methods, self'.methods, parsed.method)
               /\ IF parsed.status[1] \in {"4", "5"}
                  THEN PlusOneAt(self.ip_errors, self'.ip_errors, parsed.ip)
                  ELSE self'.ip_errors = self.ip_errors
               /\ self'.failed_lines = self.failed_lines ]_vars

\* The statuses 4 and 5000 counted as errors of their clients, 600 not.
C15_Witness ==
    /\ Keys(self.status_codes) = {<<"4">>, <<"5", "0", "0", "0">>, <<"6", "0", "0">>}
    /\ self.ip_errors = << <<IpA, 1>>, <<IpB, 1>> >>
    /\ Get(self.ip_requests, IpB, 0) = 2

\* C17: generate_statistics and identify_suspicious_ips are pure reads: a
\* call of either leaves total_requests, ip_requests, ip_errors (its key set
\* included: no client is added with 0 errors), endpoints, status_codes,
\* methods and failed_lines unchanged.
C17_ReportsArePureReads ==
    [][ (report_calls' = report_calls + 1 \/ suspicious'.held) => self' = self ]_vars

\* Both were called on an analyzer with a client that has no entry in
\* ip_errors and with a failed line.
C17_Witness ==
    /\ suspicious.held
    /\ report_calls = 2
    /\ Keys(self.ip_requests) = {IpA, IpB}
    /\ Keys(self.ip_errors) = {IpB}
    /\ Len(self.failed_lines) = 1

\* C18: in every reachable state, total_requests = 0 included,
\* display_console_report divides by zero nowhere: no call raises
\* ZeroDivisionError and every percentage it prints is a number.
C18_NoDivisionByZero ==
    /\ raised # ZeroDivisionError
    /\ console.shown =>
          /\ console.percentages = display_console_report(self)
          /\ \A i \in DOMAIN console.percentages :
                /\ console.percentages[i] # ZeroDivision
                /\ console.percentages[i].den > 0

\* The report was displayed with lines read and none of them parsed.
C18_Witness ==
    /\ console.shown
    /\ self.total_requests = 0
    /\ Len(self.failed_lines) >= 1
    /\ raised = NoException

\* C19: for every line parse_line accepts, the bytes field is one or more
\* digits or exactly "-" (never a mixture such as 1-2 or --), and the
\* status field is one or more digits.
C19_BytesAndStatusShape ==
    [][ \A line \in CodeLines :
            LET parsed == parse_line(line) IN
            ( /\ parsed # None
              /\ lines_read' = lines_read + 1
              /\ self' = process_line(self, line_num', line) )
            => /\ \/ parsed.bytes = <<"-">>
                  \/ /\ parsed.bytes # <<>>
                     /\ \A i \in DOMAIN parsed.bytes : parsed.bytes[i] \in Digit
               /\ parsed.status # <<>>
               /\ \A i \in DOMAIN parsed.status : parsed.status[i] \in Digit ]_vars

\* A later state is a state of a later ingestion: failed_lines then starts
\* with failed_lines now.
IsPrefix(earlier, later) ==
    /\ Len(earlier) <= Len(later)
    /\ \A i \in DOMAIN earlier : later[i] = earlier[i]

\* C20: failed_lines is append-only: an entry once stored keeps its position
\* and its (line number, text) in every later state; failed_lines of a later
\* state has the earlier failed_lines as a prefix.
C20_SampleAppendOnly ==
    [][ IsPrefix(self.failed_lines, self'.failed_lines) ]_vars

\* A full sample, with lines of a second file read after it filled up.
C20_Witness ==
    /\ Len(self.failed_lines) = 10
    /\ self.failed_lines[10][1] = 10
    /\ lines_read = 12
    /\ line_num = 1

\* C21: in every reachable state the values of endpoints, of status_codes
\* and of methods each sum to total_requests.
C21_DistributionsSumToTotal ==
    /\ SumValues(self.endpoints) = self.total_requests
    /\ SumValues(self.status_codes) = self.total_requests
    /\ SumValues(self.methods) = self.total_requests

\* Three requests over two paths, three status codes and two methods.
C21_Witness ==
    /\ self.total_requests = 3
    /\ Len(self.endpoints) = 2
    /\ Len(self.status_codes) = 3
    /\ Len(self.methods) = 2

\* C22: in every reachable state the values of ip_errors sum to the counts of
\* the status codes that start with 4 or 5, so in every report
\* 4xx_client_error + 5xx_server_error is the total of the clients' errors.
C22_ErrorsMatchStatusCodes ==
    /\ SumValues(self.ip_errors) = CountOfCodes(self.status_codes, {"4", "5"})
    /\ report_calls >= 1 =>
          report.status_codes.summary["4xx_client_error"]
              + report.status_codes.summary["5xx_server_error"]
              = SumValues(self.ip_errors)

\* A report over the statuses 4, 5000 and 200 of two clients.
C22_Witness ==
    /\ report_calls >= 1
    /\ SumValues(self.ip_errors) = 2
    /\ Len(self.ip_errors) = 2
    /\ <<"2", "0", "0">> \in Keys(self.status_codes)
    /\ report.status_codes.summary["4xx_client_error"] = 1

====
